---- MODULE Spec2Model ----
(***************************************************************************)
(* Model of the statement normalisation in dashboard.py: the column        *)
(* detection, extract_merchant and the Amount / Type handling that turn an *)
(* uploaded table (raw) into the normalised frame (df).                    *)
(*                                                                         *)
(* Text is a sequence of one-character strings.  A cell of a frame is one  *)
(* of                                                                      *)
(*     [nan |-> TRUE]      a missing value (NaN / None)                    *)
(*     [str |-> <<..>>]    a Python str                                    *)
(*     [num |-> n]         a number, n = value * Scale (fixed point)       *)
(*     [ts  |-> TRUE]      a parsed date (datetime or NaT), left abstract  *)
(* The only whitespace character of the modelled alphabet is the blank.    *)
(***************************************************************************)
EXTENDS Integers, Sequences, FiniteSets, TLC

\* ------------------------------------------------------------------ bounds

\* Longest narration body, in tokens, that Init enumerates.
MaxTokens == 3
\* Longest amount / debit / credit cell, in tokens, that Init enumerates.
MaxCellLen == 3
\* Most columns of an enumerated header.
MaxCols == 3
\* Most rows of an enumerated table.
MaxRows == 2

\* ------------------------------------------------------------- characters

Lowers == <<"a","b","c","d","e","f","g","h","i","j","k","l","m",
            "n","o","p","q","r","s","t","u","v","w","x","y","z">>
Uppers == <<"A","B","C","D","E","F","G","H","I","J","K","L","M",
            "N","O","P","Q","R","S","T","U","V","W","X","Y","Z">>
Digits == {"0","1","2","3","4","5","6","7","8","9"}
Letters == {Lowers[i] : i \in 1..26} \cup {Uppers[i] : i \in 1..26}

\* str.upper() on one character
UpperChar(c) ==
    IF \E i \in 1..26 : Lowers[i] = c
    THEN Uppers[CHOOSE i \in 1..26 : Lowers[i] = c]
    ELSE c

\* str.upper()
Upper(s) == [i \in 1..Len(s) |-> UpperChar(s[i])]

\* \s of the regular expressions, and what str.strip() removes
IsSpace(c) == c = " "

IsDigit(c) == c \in Digits

\* ----------------------------------------------------------------- strings

\* str.strip()
Strip(s) ==
    LET keep == {i \in 1..Len(s) : ~IsSpace(s[i])}
    IN  IF keep = {} THEN <<>>
        ELSE LET lo == CHOOSE i \in keep : \A j \in keep : i <= j
                 hi == CHOOSE i \in keep : \A j \in keep : j <= i
             IN  SubSeq(s, lo, hi)

\* s[:n]
Truncate(s, n) == IF Len(s) <= n THEN s ELSE SubSeq(s, 1, n)

\* the literal lit stands at position i of s, letter case ignored
MatchAtCI(s, i, lit) ==
    /\ i >= 1
    /\ i + Len(lit) - 1 <= Len(s)
    /\ \A k \in 1..Len(lit) : UpperChar(s[i + k - 1]) = UpperChar(lit[k])

\* the literal lit stands at position i of s, letter case kept
MatchAt(s, i, lit) ==
    /\ i >= 1
    /\ i + Len(lit) - 1 <= Len(s)
    /\ \A k \in 1..Len(lit) : s[i + k - 1] = lit[k]

\* re.search(word, s, re.IGNORECASE) for a literal word
ContainsCI(s, lit) == \E i \in 1..Len(s) : MatchAtCI(s, i, lit)

\* the least element of a non-empty set of positions
MinOf(S) == CHOOSE i \in S : \A j \in S : i <= j

\* the first position >= i of s that holds a character of stop, Len(s) + 1
\* when there is none: the end (exclusive) of a run [^stop]*
RECURSIVE RunEnd(_, _, _)
RunEnd(s, i, stop) ==
    IF i > Len(s) \/ s[i] \in stop THEN i ELSE RunEnd(s, i + 1, stop)

\* the first position >= i of s that holds a character outside cls, Len(s) + 1
\* when there is none: the end (exclusive) of a greedy run [cls]*
RECURSIVE SkipWhile(_, _, _)
SkipWhile(s, i, cls) ==
    IF i > Len(s) \/ s[i] \notin cls THEN i ELSE SkipWhile(s, i + 1, cls)

\* str.replace(old, "") on one string: every non-overlapping occurrence of
\* old, left to right, is removed
RECURSIVE Remove(_, _)
Remove(s, old) ==
    IF Len(s) < Len(old) THEN s
    ELSE IF MatchAt(s, 1, old) THEN Remove(SubSeq(s, Len(old) + 1, Len(s)), old)
    ELSE <<s[1]>> \o Remove(SubSeq(s, 2, Len(s)), old)

\* -------------------------------------------------------- extract_merchant

NoMatch == [found |-> FALSE, group |-> <<>>]

\* group 1 of the lazy tail  ([^-@]+?)(?:-|@|\s|$)  entered at position g, whose
\* character is neither "-" nor "@": the first character is taken whatever it
\* is, then the group grows up to the first "-", "@", blank or the end
LazyName(s, g) == SubSeq(s, g, RunEnd(s, g + 1, {"-", "@", " "}) - 1)

\* re.search(r"UPI[-/]([^-@]+?)(?:-|@|\s|$)", s, re.IGNORECASE)
Pattern1(s) ==
    LET starts == {i \in 1..Len(s) :
                      /\ MatchAtCI(s, i, <<"U","P","I">>)
                      /\ i + 4 <= Len(s)
                      /\ s[i + 3] \in {"-", "/"}
                      /\ s[i + 4] \notin {"-", "@"}}
    IN  IF starts = {} THEN NoMatch
        ELSE [found |-> TRUE, group |-> LazyName(s, MinOf(starts) + 4)]

\* position of group 1 of REV-UPI-[^-]+-(...) for a match starting at i, 0 when
\* the pattern does not match there
RevGroupStart(s, i) ==
    IF ~MatchAtCI(s, i, <<"R","E","V","-","U","P","I","-">>) THEN 0
    ELSE LET r == i + 8
             e == RunEnd(s, r, {"-"})
         IN  IF e > r /\ e + 1 <= Len(s) /\ s[e + 1] \notin {"-", "@"}
             THEN e + 1 ELSE 0

\* re.search(r"REV-UPI-[^-]+-([^-@]+?)(?:-|@|\s|$)", s, re.IGNORECASE)
Pattern2(s) ==
    LET starts == {i \in 1..Len(s) : RevGroupStart(s, i) # 0}
    IN  IF starts = {} THEN NoMatch
        ELSE [found |-> TRUE, group |-> LazyName(s, RevGroupStart(s, MinOf(starts)))]

\* FT-[^-]+-[^-]+-  matched at i: the position after its last "-", 0 when it
\* does not match there
FtRestStart(s, i) ==
    IF ~MatchAtCI(s, i, <<"F","T","-">>) THEN 0
    ELSE LET a  == i + 3
             e1 == RunEnd(s, a, {"-"})
             b  == e1 + 1
             e2 == RunEnd(s, b, {"-"})
         IN  IF e1 > a /\ e1 <= Len(s) /\ e2 > b /\ e2 <= Len(s)
             THEN e2 + 1 ELSE 0

\* \s*([^-]+?)(?:\s*-\s*[^-]*)?$  entered at position p: the rest of the string
\* must hold at most one "-", with at least one character before it
FtTailMatches(s, p) ==
    LET d == RunEnd(s, p, {"-"})
    IN  /\ p >= 1
        /\ p <= Len(s)
        /\ d > p
        /\ (d <= Len(s) => RunEnd(s, d + 1, {"-"}) = Len(s) + 1)

\* group 1 of that tail.  \s* is greedy and gives back one blank only when
\* nothing else is left for the group; the lazy group then grows until what
\* follows is blanks and the "-" (or, without a "-", the end of the string)
FtGroup(s, p) ==
    LET d     == RunEnd(s, p, {"-"})
        first == SkipWhile(s, p, {" "})
    IN  IF first >= d THEN SubSeq(s, d - 1, d - 1)
        ELSE IF d > Len(s) THEN SubSeq(s, first, Len(s))
        ELSE LET body == {k \in first..(d - 1) : ~IsSpace(s[k])}
                 last == CHOOSE k \in body : \A j \in body : j <= k
             IN  SubSeq(s, first, last)

\* re.search(r"FT-[^-]+-[^-]+-\s*([^-]+?)(?:\s*-\s*[^-]*)?$", s, re.IGNORECASE)
Pattern3(s) ==
    LET starts == {i \in 1..Len(s) :
                      FtRestStart(s, i) # 0 /\ FtTailMatches(s, FtRestStart(s, i))}
    IN  IF starts = {} THEN NoMatch
        ELSE [found |-> TRUE, group |-> FtGroup(s, FtRestStart(s, MinOf(starts)))]

\* [A-Za-z0-9._-]
HandleChars == Letters \cup Digits \cup {".", "_", "-"}

\* re.search(r"@upi[:\s]*([A-Za-z0-9._-]+)", s, re.IGNORECASE)
Pattern4(s) ==
    LET tok(i) == SkipWhile(s, i + 4, {":", " "})
        starts == {i \in 1..Len(s) :
                      /\ MatchAtCI(s, i, <<"@","u","p","i">>)
                      /\ SkipWhile(s, tok(i), HandleChars) > tok(i)}
    IN  IF starts = {} THEN NoMatch
        ELSE LET g == tok(MinOf(starts))
             IN  [found |-> TRUE,
                  group |-> SubSeq(s, g, SkipWhile(s, g, HandleChars) - 1)]

\* [A-Za-z0-9 &._@-]
PartyChars == Letters \cup Digits \cup {" ", "&", ".", "_", "@", "-"}

\* kw:?\s*([A-Za-z0-9 &._@-]{3,})  matched at i.  The greedy \s* takes every
\* blank and returns just as many as the group lacks to reach 3 characters.
KeywordGroup(s, i, kw) ==
    IF ~MatchAtCI(s, i, kw) THEN NoMatch
    ELSE LET c    == i + Len(kw)
             c2   == IF c <= Len(s) /\ s[c] = ":" THEN c + 1 ELSE c
             wEnd == SkipWhile(s, c2, {" "})
             rEnd == SkipWhile(s, wEnd, PartyChars)
             run  == rEnd - wEnd
             back == IF run >= 3 THEN 0 ELSE 3 - run
         IN  IF back <= wEnd - c2
             THEN [found |-> TRUE, group |-> SubSeq(s, wEnd - back, rEnd - 1)]
             ELSE NoMatch

\* re.search(kw + r":?\s*([A-Za-z0-9 &._@-]{3,})", s, re.IGNORECASE)
PatternKeyword(s, kw) ==
    LET starts == {i \in 1..Len(s) : KeywordGroup(s, i, kw).found}
    IN  IF starts = {} THEN NoMatch ELSE KeywordGroup(s, MinOf(starts), kw)

\* re.split(r"[,|:-]", s)
RECURSIVE SplitParts(_)
SplitParts(s) ==
    LET d == RunEnd(s, 1, {",", "|", ":", "-"})
    IN  IF d > Len(s) THEN <<s>>
        ELSE <<SubSeq(s, 1, d - 1)>> \o SplitParts(SubSeq(s, d + 1, Len(s)))

\* re.match(r"^\d+$", part)
AllDigits(part) == Len(part) > 0 /\ \A k \in 1..Len(part) : IsDigit(part[k])

UPI == <<"U", "P", "I">>

\* the test of the fallback loop, on a stripped part
ChunkAccepted(part) ==
    /\ Upper(part) # UPI
    /\ part # <<>>
    /\ ~AllDigits(part)
    /\ Len(part) > 2

\* the test of patterns 1 and 2, on the stripped group
NameAccepted(merchant) == Upper(merchant) # UPI /\ Len(merchant) > 2

\* the test of pattern 3, on the stripped group
FtAccepted(merchant) == Len(merchant) > 2

\* the length kept by both fallbacks
MaxMerchantLen == 60

\* extract_merchant on a string, with the number of the rule whose return
\* statement produced the value (1..3 the UPI, reversal and fund-transfer
\* patterns, 4 the @upi handle, 5 "to", 6 "from", 7 the split, 8 the whole
\* text)
ExtractFromStr(s) ==
    LET m1 == Pattern1(s)
        m2 == Pattern2(s)
        m3 == Pattern3(s)
        m4 == Pattern4(s)
        m5 == PatternKeyword(s, <<"t","o">>)
        m6 == PatternKeyword(s, <<"f","r","o","m">>)
        parts == SplitParts(s)
        good  == {k \in 1..Len(parts) : ChunkAccepted(Strip(parts[k]))}
    IN  IF m1.found /\ NameAccepted(Strip(m1.group))
            THEN [rule |-> 1, value |-> Strip(m1.group)]
        ELSE IF m2.found /\ NameAccepted(Strip(m2.group))
            THEN [rule |-> 2, value |-> Strip(m2.group)]
        ELSE IF m3.found /\ FtAccepted(Strip(m3.group))
            THEN [rule |-> 3, value |-> Strip(m3.group)]
        ELSE IF m4.found THEN [rule |-> 4, value |-> Strip(m4.group)]
        ELSE IF m5.found THEN [rule |-> 5, value |-> Strip(m5.group)]
        ELSE IF m6.found THEN [rule |-> 6, value |-> Strip(m6.group)]
        ELSE IF good # {}
            THEN [rule |-> 7,
                  value |-> Truncate(Strip(parts[MinOf(good)]), MaxMerchantLen)]
        ELSE [rule |-> 8, value |-> Truncate(s, MaxMerchantLen)]

\* ------------------------------------------------------------------ cells

NaN == [nan |-> TRUE]

Str(s) == [str |-> s]

Num(n) == [num |-> n]

\* the value df["Date"] receives from try_parse_date: a datetime or NaT, whose
\* computation (dateutil) is not modelled
Timestamp == [ts |-> TRUE]

IsNaN(c) == "nan" \in DOMAIN c

IsStr(c) == "str" \in DOMAIN c

IsNum(c) == "num" \in DOMAIN c

\* pd.isna(x)
IsNA(c) == IsNaN(c)

\* ---------------------------------------------------------------- numbers

\* Decimals kept by the fixed-point numbers: no enumerated cell has more.
FracDigits == MaxCellLen

RECURSIVE Pow10(_)
Pow10(k) == IF k = 0 THEN 1 ELSE 10 * Pow10(k - 1)

Scale == Pow10(FracDigits)

DigitSeq == <<"0","1","2","3","4","5","6","7","8","9">>

DigitVal(c) == (CHOOSE i \in 1..10 : DigitSeq[i] = c) - 1

\* the value of a run of decimal digits
RECURSIVE DigitsValue(_)
DigitsValue(ds) ==
    IF ds = <<>> THEN 0
    ELSE 10 * DigitsValue(SubSeq(ds, 1, Len(ds) - 1)) + DigitVal(ds[Len(ds)])

\* the value, times Scale, of the decimals after the point (decimals past
\* FracDigits, which no modelled cell has, would be cut)
FractionValue(ds) ==
    IF Len(ds) <= FracDigits THEN DigitsValue(ds) * Pow10(FracDigits - Len(ds))
    ELSE DigitsValue(SubSeq(ds, 1, FracDigits))

\* an unsigned decimal literal: digits, at most one point, at least one digit
IsUnsignedDecimal(u) ==
    LET dots == {i \in 1..Len(u) : u[i] = "."}
    IN  /\ Cardinality(dots) <= 1
        /\ \A i \in 1..Len(u) : IsDigit(u[i]) \/ u[i] = "."
        /\ \E i \in 1..Len(u) : IsDigit(u[i])

UnsignedValue(u) ==
    LET d == RunEnd(u, 1, {"."})
    IN  DigitsValue(SubSeq(u, 1, d - 1)) * Scale
          + (IF d > Len(u) THEN 0 ELSE FractionValue(SubSeq(u, d + 1, Len(u))))

\* pd.to_numeric(..., errors='coerce') on one string: blanks around the number
\* are skipped, one sign is allowed, "nan" and everything that is no number
\* give NaN
ToNumeric(s) ==
    LET t == Strip(s)
        signed == t # <<>> /\ t[1] \in {"-", "+"}
        u == IF signed THEN SubSeq(t, 2, Len(t)) ELSE t
    IN  IF ~IsUnsignedDecimal(u) THEN NaN
        ELSE IF signed /\ t[1] = "-" THEN Num(0 - UnsignedValue(u))
        ELSE Num(UnsignedValue(u))

\* Series.fillna(0) on one value
FillNa0(c) == IF IsNaN(c) THEN Num(0) ELSE c

\* Series.abs() on one value
Abs(c) == IF IsNum(c) /\ c.num < 0 THEN Num(0 - c.num) ELSE c

\* the decimal digits of a natural number
RECURSIVE NatDigits(_)
NatDigits(k) ==
    IF k < 10 THEN <<DigitSeq[k + 1]>>
    ELSE NatDigits(k \div 10) \o <<DigitSeq[(k % 10) + 1]>>

\* the last width decimal digits of k, zeros in front kept
RECURSIVE PadDigits(_, _)
PadDigits(k, width) ==
    IF width = 0 THEN <<>>
    ELSE PadDigits(k \div 10, width - 1) \o <<DigitSeq[(k % 10) + 1]>>

\* the decimals of frac / 10^width, trailing zeros dropped, one digit at least
RECURSIVE FracDigitsOf(_, _)
FracDigitsOf(frac, width) ==
    IF width > 1 /\ frac % 10 = 0 THEN FracDigitsOf(frac \div 10, width - 1)
    ELSE PadDigits(frac, width)

\* str(x) of a number of an int64 or a float64 column.  The fixed-point values
\* are 0 or at least 10^-FracDigits in magnitude, which repr() prints in
\* positional notation
FormatNum(n, dtype) ==
    LET a    == IF n < 0 THEN 0 - n ELSE n
        sign == IF n < 0 THEN <<"-">> ELSE <<>>
    IN  IF dtype = "int64" THEN sign \o NatDigits(a \div Scale)
        ELSE sign \o NatDigits(a \div Scale) \o <<".">>
                \o (IF FracDigits = 0 THEN <<"0">>
                    ELSE FracDigitsOf(a % Scale, FracDigits))

\* str(x) / Series.astype(str) on one cell
AsStr(c) ==
    IF IsNaN(c) THEN <<"n", "a", "n">>
    ELSE IF IsStr(c) THEN c.str
    ELSE IF IsNum(c) THEN FormatNum(c.num, "float64")
    ELSE <<"N", "a", "T">>

\* extract_merchant(text)
extract_merchant(text) ==
    IF IsNA(text) THEN <<>> ELSE ExtractFromStr(AsStr(text)).value

\* the rule of extract_merchant that returns for text, 0 for the early return
\* on a missing value
RuleOf(text) == IF IsNA(text) THEN 0 ELSE ExtractFromStr(AsStr(text)).rule

\* ----------------------------------------------------------------- frames
\* A DataFrame is [cols |-> <<name, ...>>, rows |-> <<row, ...>>], a row being
\* the sequence of its cells in the order of cols.

HasColumn(frame, name) == \E i \in 1..Len(frame.cols) : frame.cols[i] = name

ColumnIndex(frame, name) ==
    MinOf({i \in 1..Len(frame.cols) : frame.cols[i] = name})

\* frame[name], one value per row
Column(frame, name) ==
    [r \in 1..Len(frame.rows) |-> frame.rows[r][ColumnIndex(frame, name)]]

\* frame[name] = values: an existing column is overwritten in place, a new one
\* is appended
SetColumn(frame, name, values) ==
    IF HasColumn(frame, name)
    THEN [frame EXCEPT !.rows =
            [r \in 1..Len(frame.rows) |->
                [frame.rows[r] EXCEPT ![ColumnIndex(frame, name)] = values[r]]]]
    ELSE [cols |-> Append(frame.cols, name),
          rows |-> [r \in 1..Len(frame.rows) |-> Append(frame.rows[r], values[r])]]

\* frame[name].dtype == object: the column holds a str
IsObjectColumn(frame, name) ==
    \E r \in 1..Len(frame.rows) : IsStr(Column(frame, name)[r])

\* ------------------------------------------------------------------ state

VARIABLES
    pc,              \* the statement the script has reached
    raw,             \* the uploaded table
    df,              \* the working copy that becomes the normalised table
    date_col, narration_col, amount_col, debit_col, credit_col,
    pass,            \* 1, or 2 when the table is the first pass's own output
    first            \* the Amount and Type columns the first pass produced

vars == <<pc, raw, df, date_col, narration_col, amount_col, debit_col,
          credit_col, pass, first>>

\* Python's None for a column role; like None, no column name
None == <<>>

EmptyFrame == [cols |-> <<>>, rows |-> <<>>]

\* names of the columns the script creates
DateName     == <<"D","a","t","e">>
MerchantName == <<"M","e","r","c","h","a","n","t">>
AmountName   == <<"A","m","o","u","n","t">>
DebitName    == <<"D","e","b","i","t">>
CreditName   == <<"C","r","e","d","i","t">>
TypeName     == <<"T","y","p","e">>
CategoryName == <<"C","a","t","e","g","o","r","y">>

\* the two values of Type
Debit  == <<"D","e","b","i","t">>
Credit == <<"C","r","e","d","i","t">>

\* --------------------------------------------------------- column detection

\* FirstMatch without the stop at the first hit: the last matching column wins
LastMatch(cols, keywords) ==
    LET hits == {i \in 1..Len(cols) : \E k \in keywords : ContainsCI(cols[i], k)}
    IN  IF hits = {} THEN <<>>
        ELSE cols[CHOOSE i \in hits : \A j \in hits : j <= i]

\* the first column, in the order of raw.columns, whose name holds one of the
\* keywords (re.search(..., re.IGNORECASE)); None when there is none
FirstMatch(cols, keywords) ==
    LET hits == {i \in 1..Len(cols) : \E k \in keywords : ContainsCI(cols[i], k)}
    IN  IF hits = {} THEN None ELSE cols[MinOf(hits)]

DateKeywords == {<<"d","a","t","e">>, <<"t","x","n"," ","d","a","t","e">>, <<"v","a","l","u","e"," ","d","a","t","e">>}

NarrationKeywords ==
    {<<"n","a","r","r","a","t","i","o","n">>, <<"d","e","s","c","r","i","p","t","i","o","n">>, <<"r","e","m","a","r","k","s">>, <<"p","a","r","t","i","c","u","l","a","r","s">>, <<"d","e","t","a","i","l","s">>}

AmountKeywords == {<<"a","m","o","u","n","t">>, <<"a","m","t">>}

DebitKeywords == {<<"d","e","b","i","t">>, <<"w","i","t","h","d","r","a","w">>}

CreditKeywords == {<<"c","r","e","d","i","t">>, <<"d","e","p","o","s","i","t">>}

\* lines 157-186: the five roles, then df = raw.copy()
DetectColumns ==
    /\ pc = "loaded"
    /\ date_col'      = FirstMatch(raw.cols, DateKeywords)
    /\ narration_col' = FirstMatch(raw.cols, NarrationKeywords)
    /\ amount_col'    = FirstMatch(raw.cols, AmountKeywords)
    /\ debit_col'     = FirstMatch(raw.cols, DebitKeywords)
    /\ credit_col'    = FirstMatch(raw.cols, CreditKeywords)
    /\ df' = raw
    /\ pc' = "detected"
    /\ UNCHANGED <<raw, pass, first>>

\* lines 188-194: df["Date"] is assigned, from the date column or from the
\* whole row; either way each row gets a datetime or NaT
NormalizeDate ==
    /\ pc = "detected"
    /\ df' = SetColumn(df, DateName, [r \in 1..Len(df.rows) |-> Timestamp])
    /\ pc' = "dated"
    /\ UNCHANGED <<raw, date_col, narration_col, amount_col, debit_col,
                   credit_col, pass, first>>

\* text_cols: the columns of df of dtype object, in column order
TextColumns(frame) ==
    {i \in 1..Len(frame.cols) : IsObjectColumn(frame, frame.cols[i])}

\* the Merchant column of lines 196-205
MerchantValues(frame, narration) ==
    IF narration # None
    THEN [r \in 1..Len(frame.rows) |->
            Str(extract_merchant(Column(frame, narration)[r]))]
    ELSE IF TextColumns(frame) # {}
    THEN [r \in 1..Len(frame.rows) |->
            Str(extract_merchant(frame.rows[r][MinOf(TextColumns(frame))]))]
    ELSE [r \in 1..Len(frame.rows) |-> Str(<<>>)]

\* lines 196-205
MerchantColumn ==
    /\ pc = "dated"
    /\ df' = SetColumn(df, MerchantName, MerchantValues(df, narration_col))
    /\ pc' = "merchant"
    /\ UNCHANGED <<raw, date_col, narration_col, amount_col, debit_col,
                   credit_col, pass, first>>

\* ------------------------------------------------------ Amount / Type

\* line 209 on one cell: ",", "INR" and "Rs." are removed in this order, the
\* rest is parsed, NaN becomes 0
ParseAmount(c) ==
    FillNa0(ToNumeric(Remove(Remove(Remove(AsStr(c), <<",">>), <<"I","N","R">>),
                             <<"R","s",".">>)))

\* lines 212 and 213 on one cell
ParseSide(c) == FillNa0(ToNumeric(Remove(AsStr(c), <<",">>)))

\* SplitAmount without abs()
SplitAmountSigned(debit, credit) ==
    FillNa0(IF credit.num = 0 THEN debit ELSE credit)

\* lines 214 and 216 on one row: Credit.replace(0, nan).fillna(Debit), then
\* abs() and fillna(0)
SplitAmount(debit, credit) ==
    FillNa0(Abs(IF credit.num = 0 THEN debit ELSE credit))

\* line 217 on one row
SplitType(debit, credit) == IF credit.num > 0 THEN Credit ELSE Debit

\* SignType reading the sign off the parsed number instead of the text
SignTypeParsed(c) ==
    IF FillNa0(ToNumeric(Remove(Remove(Remove(AsStr(c), <<",">>), <<"I","N","R">>),
                                <<"R","s",".">>))).num < 0
    THEN <<"D","e","b","i","t">> ELSE <<"C","r","e","d","i","t">>

\* lines 220 and 221 on one cell of raw: the sign is read off the text
SignType(c) ==
    IF \E i \in 1..Len(AsStr(c)) : AsStr(c)[i] = "-" THEN Debit ELSE Credit

\* SingleAmount without abs()
SingleAmountSigned(c) == c

\* line 222 on one value
SingleAmount(c) == Abs(c)

\* line 211: the debit and credit columns are preferred when both were found
UseSplit(debit, credit) == debit # None /\ credit # None

\* lines 207-226 on a frame
AmountTypeFrame(frame, source, amount, debit, credit) ==
    LET rows == 1..Len(frame.rows)
    IN  IF amount # None
        THEN LET d1 == SetColumn(frame, AmountName,
                          [r \in rows |-> ParseAmount(Column(frame, amount)[r])])
             IN  IF UseSplit(debit, credit)
                 THEN LET d2 == SetColumn(d1, DebitName,
                                   [r \in rows |-> ParseSide(Column(d1, debit)[r])])
                          d3 == SetColumn(d2, CreditName,
                                   [r \in rows |-> ParseSide(Column(d2, credit)[r])])
                          d4 == SetColumn(d3, AmountName,
                                   [r \in rows |->
                                       SplitAmount(Column(d3, DebitName)[r],
                                                   Column(d3, CreditName)[r])])
                      IN  SetColumn(d4, TypeName,
                             [r \in rows |->
                                 Str(SplitType(Column(d4, DebitName)[r],
                                               Column(d4, CreditName)[r]))])
                 ELSE LET d2 == SetColumn(d1, TypeName,
                                   [r \in rows |->
                                       Str(SignType(Column(source, amount)[r]))])
                      IN  SetColumn(d2, AmountName,
                             [r \in rows |-> SingleAmount(Column(d2, AmountName)[r])])
        ELSE SetColumn(SetColumn(frame, AmountName, [r \in rows |-> Num(0)]),
                       TypeName, [r \in rows |-> Str(Debit)])

\* lines 207-226
AmountTypeHandling ==
    /\ pc = "merchant"
    /\ df' = AmountTypeFrame(df, raw, amount_col, debit_col, credit_col)
    /\ pc' = "typed"
    /\ UNCHANGED <<raw, date_col, narration_col, amount_col, debit_col,
                   credit_col, pass, first>>

\* CategoryFrame without the test: Category is always assigned
CategoryFrameAlways(frame) ==
    SetColumn(frame, <<"C","a","t","e","g","o","r","y">>,
              [r \in 1..Len(frame.rows) |-> Str(<<>>)])

\* lines 228-230 on a frame
CategoryFrame(frame) ==
    IF ~HasColumn(frame, CategoryName)
    THEN SetColumn(frame, CategoryName, [r \in 1..Len(frame.rows) |-> Str(<<>>)])
    ELSE frame

\* lines 228-230; the normalised table is complete
AddCategory ==
    /\ pc = "typed"
    /\ df' = CategoryFrame(df)
    /\ pc' = "done"
    /\ UNCHANGED <<raw, date_col, narration_col, amount_col, debit_col,
                   credit_col, pass, first>>

Next ==
    \/ DetectColumns
    \/ NormalizeDate
    \/ MerchantColumn
    \/ AmountTypeHandling
    \/ AddCategory

\* -------------------------------------------------------- the output table

\* lines 254-260: the columns shown and exported (Date_display is df["Date"]
\* reduced to its date)
DisplayColumns == <<DateName, MerchantName, AmountName, TypeName, CategoryName>>

Normalized(frame) ==
    [cols |-> DisplayColumns,
     rows |-> [r \in 1..Len(frame.rows) |->
                 [k \in 1..Len(DisplayColumns) |->
                     Column(frame, DisplayColumns[k])[r]]]]

\* a table as it reads back after being written out: a number is the text
\* str() gives it in a column of the given dtype
Rendered(frame, dtype) ==
    [frame EXCEPT !.rows =
        [r \in 1..Len(frame.rows) |->
            [k \in 1..Len(frame.cols) |->
                IF IsNum(frame.rows[r][k])
                THEN Str(FormatNum(frame.rows[r][k].num, dtype))
                ELSE frame.rows[r][k]]]]

\* The normalised table is fed to the script again (the re-run of the
\* idempotence property).  Its Amount column is int64 when every amount is a
\* whole number and the operations kept the integer dtype, float64 otherwise.
Reingest ==
    /\ pc = "done"
    /\ pass = 1
    /\ \E dtype \in {"int64", "float64"} :
          /\ dtype = "int64" =>
                \A r \in 1..Len(df.rows) : Column(df, AmountName)[r].num % Scale = 0
          /\ raw' = Rendered(Normalized(df), dtype)
    /\ df' = EmptyFrame
    /\ date_col' = None
    /\ narration_col' = None
    /\ amount_col' = None
    /\ debit_col' = None
    /\ credit_col' = None
    /\ pass' = 2
    /\ pc' = "loaded"
    /\ first' = [amount |-> Column(df, AmountName), type |-> Column(df, TypeName)]

NextRerun == Next \/ Reingest

\* ------------------------------------------------------------ input tables

\* the concatenation of the strings ss[i], ss[i+1], ...
RECURSIVE ConcatFrom(_, _)
ConcatFrom(ss, i) ==
    IF i > Len(ss) THEN <<>> ELSE ss[i] \o ConcatFrom(ss, i + 1)

\* the strings made of at most n tokens
TokenStrings(tokens, n) ==
    {ConcatFrom(ss, 1) : ss \in UNION {[1..k -> tokens] : k \in 0..n}}

\* a name one character longer than the fallbacks keep
LongName == [i \in 1..(MaxMerchantLen + 1) |-> "A"]

NarrationTokens ==
    {UPI, <<"-">>, <<"@">>, <<" ">>, <<"A","B">>, <<"A","B","C">>, <<"1","2","3">>,
     <<"t","o">>, LongName}

NarrationHeads ==
    {<<>>, <<"R","E","V","-","U","P","I","-">>, <<"F","T","-","A","B","-">>,
     <<"f","r","o","m",":">>}

\* the narrations of the specification's examples
ExampleNarrations ==
    {<<"U","P","I","-","A","M","A","Z","O","N","-","p","a","y","m","e","n","t","@","h","d","f","c","-","R","E","F","1","2","3","-","U","P","I">>,
     <<"R","E","V","-","U","P","I","-","R","E","F","4","5","6","-","F","L","I","P","K","A","R","T","@","i","c","i","c","i","-","U","P","I">>,
     <<"F","T","-","R","E","F","7","8","9","-","A","C","0","0","1","-","J","o","h","n"," ","D","o","e"," ","-"," ","S","a","l","a","r","y">>,
     <<"P","a","y","m","e","n","t"," ","@","u","p","i",":","m","e","r","c","h","a","n","t","_","s","t","o","r","e","1","2","3">>,
     <<"r","a","n","d","o","m"," ","t","e","x","t"," ","w","i","t","h"," ","n","o"," ","p","a","t","t","e","r","n">>}

Narrations ==
    ExampleNarrations
      \cup {h \o b : h \in NarrationHeads, b \in TokenStrings(NarrationTokens, MaxTokens)}

\* a table of one row
OneRow(cols, cells) == [cols |-> cols, rows |-> <<cells>>]

\* one narration column, found by its name or (Info) as the first text column
MerchantTables ==
    {OneRow(<<<<"N","a","r","r","a","t","i","o","n">>>>, <<c>>) : c \in {NaN} \cup {Str(n) : n \in Narrations}}
      \cup {OneRow(<<<<"I","n","f","o">>>>, <<Str(n)>>) : n \in ExampleNarrations}

AmountTokens == {<<"-">>, <<"5">>, <<"0">>, <<",">>, <<".">>, <<"I","N","R">>, <<"R","s",".">>}

SideTokens == {<<"-">>, <<"5">>, <<"0">>}

\* Longest enumerated debit / credit cell where both are enumerated.
MaxSideLen == 2

RichAmountCells ==
    {NaN} \cup {Str(s) : s \in {<<"-","1",",","2","3","4",".","5","0">>, <<"2",",","0","0","0"," ","I","N","R">>}
                                  \cup TokenStrings(AmountTokens, MaxCellLen)}

FewAmountCells == {NaN, Str(<<"-","7">>), Str(<<"7">>)}

RichSideCells ==
    {NaN} \cup {Str(s) : s \in {<<"5","0","0">>, <<"1","5","0","0">>, <<"1",",","5","0","0">>}
                                  \cup TokenStrings(SideTokens, MaxSideLen)}

FewSideCells == {NaN, Str(<<"5","0","0">>)}

\* tables whose amount cell is varied: the single-amount path
SingleAmountTables ==
    {OneRow(<<AmountName>>, <<a>>) : a \in RichAmountCells}
      \cup {OneRow(<<AmountName, DebitName>>, <<a, d>>) :
               a \in RichAmountCells, d \in FewSideCells}
      \cup {OneRow(<<CreditName, <<"T","x","n"," ","A","m","t">>>>, <<c, a>>) :
               a \in RichAmountCells, c \in FewSideCells}

\* tables whose debit and credit cells are varied: the debit / credit path,
\* and the tables without an amount column
SplitAmountTables ==
    {OneRow(<<AmountName, DebitName, CreditName>>, <<a, d, c>>) :
        a \in FewAmountCells, d \in RichSideCells, c \in RichSideCells}
      \cup {OneRow(<<<<"W","i","t","h","d","r","a","w","a","l">>, <<"D","e","p","o","s","i","t">>>>, <<d, c>>) :
               d \in RichSideCells, c \in RichSideCells}
      \cup {OneRow(<<DebitName>>, <<d>>) : d \in RichSideCells}
      \cup {OneRow(<<<<"R","e","f">>>>, <<d>>) : d \in FewSideCells}

AmountTables == SingleAmountTables \cup SplitAmountTables

InitWith(tables) ==
    /\ pc = "loaded"
    /\ raw \in tables
    /\ df = EmptyFrame
    /\ date_col = None
    /\ narration_col = None
    /\ amount_col = None
    /\ debit_col = None
    /\ credit_col = None
    /\ pass = 1
    /\ first = [amount |-> <<>>, type |-> <<>>]

\* column names for the enumerated headers
HeaderNames ==
    {<<"T","x","n"," ","D","a","t","e">>, <<"V","a","l","u","e"," ","D","a","t","e">>, <<"N","a","r","r","a","t","i","o","n">>, <<"A","m","o","u","n","t">>, <<"D","e","b","i","t">>, <<"C","r","e","d","i","t">>,
     <<"W","i","t","h","d","r","a","w","a","l"," ","A","m","t">>, <<"D","E","P","O","S","I","T">>, <<"B","a","l","a","n","c","e">>}

\* headers of at most MaxCols distinct names, one row under each
HeaderTables ==
    {OneRow(h, [i \in 1..Len(h) |-> Str(<<"7">>)]) :
        h \in {g \in UNION {[1..k -> HeaderNames] : k \in 0..MaxCols} :
                  \A i, j \in 1..Len(g) : g[i] = g[j] => i = j}}

\* tables of at most MaxRows rows, without and with a Category column
TablesOver(cols, cells) ==
    {[cols |-> cols, rows |-> rs] :
        rs \in UNION {[1..n -> cells] : n \in 0..MaxRows}}

RowTables ==
    TablesOver(<<<<"N","a","r","r","a","t","i","o","n">>, AmountName>>,
               {<<Str(n), Str(a)>> : n \in {<<"A","B","C">>, <<"X","Y","Z">>}, a \in {<<"-","5">>, <<"5">>}})
      \cup TablesOver(<<<<"N","a","r","r","a","t","i","o","n">>, AmountName, CategoryName>>,
               {<<Str(n), Str(a), c>> :
                   n \in {<<"A","B","C">>, <<"X","Y","Z">>}, a \in {<<"-","5">>, <<"5">>},
                   c \in {NaN, Str(<<>>), Str(<<"F","o","o","d">>)}})

InitMerchant == InitWith(MerchantTables)

InitColumns == InitWith(HeaderTables)

InitRows == InitWith(RowTables)

InitAmount == InitWith(AmountTables)

\* extract_merchant over the enumerated narrations
SpecMerchant == InitMerchant /\ [][Next]_vars

\* the Amount / Type handling over the enumerated amount, debit and credit cells
SpecAmount == InitAmount /\ [][Next]_vars

\* the column detection over the enumerated headers
SpecColumns == InitColumns /\ [][Next]_vars

\* the whole normalisation over tables of several rows
SpecRows == InitRows /\ [][Next]_vars

\* the Amount / Type handling, followed by a second pass over the first
\* pass's output
SpecRerun == InitAmount /\ [][NextRerun]_vars

\* -------------------------------------------------------------- properties

\* the row numbers of the table
Rows == 1..Len(raw.rows)

\* Merchant has been assigned
MerchantSet == pc \in {"merchant", "typed", "done"}

\* Amount and Type have been assigned
AmountSet == pc \in {"typed", "done"}

MerchantOf(r) == Column(df, MerchantName)[r].str

AmountOf(r) == Column(df, AmountName)[r]

TypeOf(r) == Column(df, TypeName)[r]

\* the cell extract_merchant is applied to: the tables of SpecMerchant hold
\* the narration in their only column
NarrationOf(r) == raw.rows[r][1]

HasDash(s) == \E i \in 1..Len(s) : s[i] = "-"

BothSides == debit_col # None /\ credit_col # None

\* C1: once Amount and Type are assigned, every row's Amount is a number >= 0
\* and its Type is Debit or Credit, whatever columns were found and whatever
\* the cells hold.
AmountNonNegative ==
    AmountSet =>
        \A r \in Rows :
            /\ IsNum(AmountOf(r))
            /\ AmountOf(r).num >= 0
            /\ TypeOf(r) \in {Str(Debit), Str(Credit)}

\* a negative amount cell has been turned into a positive Amount
NegativeCellNormalised ==
    /\ pc = "done"
    /\ amount_col # None
    /\ \E r \in Rows :
          /\ ParseAmount(Column(raw, amount_col)[r]).num < 0
          /\ AmountOf(r).num > 0
          /\ TypeOf(r) = Str(Debit)

\* C2: the merchant of every row has at most 60 characters.
MerchantAtMost60 ==
    MerchantSet => \A r \in Rows : Len(MerchantOf(r)) <= MaxMerchantLen

\* C3: the merchant is the empty string exactly when the narration cell is
\* missing; every present narration gives a non-empty merchant.
MerchantEmptyOnlyIfAbsent ==
    MerchantSet => \A r \in Rows : (MerchantOf(r) = <<>>) <=> IsNA(NarrationOf(r))

\* C4: a narration REV-UPI-<ref>-<name>, the name acceptable to rule 2 and
\* followed by "-", "@", a blank or the end, gives <name>, by rule 2.
ReversalGivesName ==
    MerchantSet =>
        \A r \in Rows :
            LET c == NarrationOf(r)
                g == RevGroupStart(c.str, 1)
            IN  (IsStr(c) /\ g # 0 /\ NameAccepted(Strip(LazyName(c.str, g))))
                    => /\ MerchantOf(r) = Strip(LazyName(c.str, g))
                       /\ RuleOf(c) = 2

\* C5: when a debit and a credit column are both found, with or without an
\* amount column, each row has Amount = |credit| and Type = Credit if the
\* parsed credit is > 0, and Amount = |debit| and Type = Debit otherwise.
SplitRuleWheneverBothFound ==
    (pc = "done" /\ BothSides) =>
        \A r \in Rows :
            LET d == ParseSide(Column(raw, debit_col)[r])
                c == ParseSide(Column(raw, credit_col)[r])
            IN  /\ AmountOf(r) = (IF c.num > 0 THEN Abs(c) ELSE Abs(d))
                /\ TypeOf(r) = Str(IF c.num > 0 THEN Credit ELSE Debit)

\* C6 (as stated): the second pass, over the first pass's output, gives every
\* row the Amount and the Type the first pass gave it.
RerunSamePair ==
    (pass = 2 /\ pc = "done") =>
        \A r \in Rows : AmountOf(r) = first.amount[r] /\ TypeOf(r) = first.type[r]

\* C6 (amended): the second pass takes the single-amount path, gives every
\* row the Amount of the first pass, and gives every row the Type Credit: the
\* pair is kept exactly for the rows the first pass typed Credit.
RerunKeepsAmountTypesCredit ==
    (pass = 2 /\ pc = "done") =>
        /\ amount_col = AmountName
        /\ ~BothSides
        /\ \A r \in Rows :
              /\ AmountOf(r) = first.amount[r]
              /\ TypeOf(r) = Str(Credit)
              /\ (TypeOf(r) = first.type[r]) <=> (first.type[r] = Str(Credit))

\* a row the first pass typed Debit, with a positive Amount, has been through
\* the second pass
DebitRowRerun ==
    /\ pass = 2
    /\ pc = "done"
    /\ \E r \in Rows :
          /\ first.type[r] = Str(Debit)
          /\ first.amount[r].num > 0
          /\ AmountOf(r) = first.amount[r]
          /\ TypeOf(r) = Str(Credit)

\* output row r is made from input row r
RowFromInput(r) ==
    /\ narration_col # None =>
          MerchantOf(r) = extract_merchant(Column(raw, narration_col)[r])
    /\ (amount_col # None /\ ~BothSides) =>
          /\ TypeOf(r) = Str(SignType(Column(raw, amount_col)[r]))
          /\ AmountOf(r) = Abs(ParseAmount(Column(raw, amount_col)[r]))

\* C7 (as stated): the output has one row per input row, in the input's
\* order, and the category of every row is the empty string, also when the
\* input has a Category column.
CategoryAlwaysEmpty ==
    pc = "done" =>
        /\ Len(Normalized(df).rows) = Len(raw.rows)
        /\ \A r \in Rows :
              /\ Column(Normalized(df), CategoryName)[r] = Str(<<>>)
              /\ RowFromInput(r)

\* C7 (amended): the output has one row per input row, in the input's order;
\* the category of every row is the empty string when the input has no
\* Category column, and the input's own Category cell when it has one.
CategoryEmptyUnlessGiven ==
    pc = "done" =>
        /\ Len(Normalized(df).rows) = Len(raw.rows)
        /\ \A r \in Rows :
              /\ Column(Normalized(df), CategoryName)[r] =
                    (IF HasColumn(raw, CategoryName)
                     THEN Column(raw, CategoryName)[r] ELSE Str(<<>>))
              /\ RowFromInput(r)

\* two rows with different narrations and a filled Category cell have been
\* normalised
TwoRowsWithCategory ==
    /\ pc = "done"
    /\ Len(raw.rows) = 2
    /\ HasColumn(raw, CategoryName)
    /\ Column(raw, CategoryName)[1] = Str(<<"F","o","o","d">>)
    /\ MerchantOf(1) = <<"X","Y","Z">>
    /\ MerchantOf(2) = <<"A","B","C">>
    /\ Column(Normalized(df), CategoryName)[1] = Str(<<"F","o","o","d">>)

\* the column name holds one of the keywords, letter case ignored
NameMatches(name, keywords) == \E k \in keywords : ContainsCI(name, k)

\* role is the first column of raw matching the keywords, None without one
IsFirstMatching(role, keywords) ==
    IF \A i \in 1..Len(raw.cols) : ~NameMatches(raw.cols[i], keywords)
    THEN role = None
    ELSE \E i \in 1..Len(raw.cols) :
            /\ raw.cols[i] = role
            /\ NameMatches(raw.cols[i], keywords)
            /\ \A j \in 1..(i - 1) : ~NameMatches(raw.cols[j], keywords)

\* C8: each of the five roles is the first column, in column order, whose
\* name holds one of the role's keywords whatever the letter case, and None
\* when no column does; the roles are found independently of each other;
\* "Txn Date", "Value Date" gives the date role to "Txn Date".
FirstMatchPerRole ==
    pc # "loaded" =>
        /\ IsFirstMatching(date_col, DateKeywords)
        /\ IsFirstMatching(narration_col, NarrationKeywords)
        /\ IsFirstMatching(amount_col, AmountKeywords)
        /\ IsFirstMatching(debit_col, DebitKeywords)
        /\ IsFirstMatching(credit_col, CreditKeywords)
        /\ raw.cols = <<<<"T","x","n"," ","D","a","t","e">>, <<"V","a","l","u","e"," ","D","a","t","e">>>> => date_col = <<"T","x","n"," ","D","a","t","e">>

\* two date columns, and one column taken for two roles, have been classified
TwoDatesAndSharedColumn ==
    /\ pc = "detected"
    /\ raw.cols = <<<<"T","x","n"," ","D","a","t","e">>, <<"W","i","t","h","d","r","a","w","a","l"," ","A","m","t">>, <<"V","a","l","u","e"," ","D","a","t","e">>>>
    /\ date_col = <<"T","x","n"," ","D","a","t","e">>
    /\ amount_col = <<"W","i","t","h","d","r","a","w","a","l"," ","A","m","t">>
    /\ debit_col = <<"W","i","t","h","d","r","a","w","a","l"," ","A","m","t">>
    /\ credit_col = None
    /\ narration_col = None

\* C9: a merchant returned by rule 1, 2, 3, 5, 6 or 7 is, once trimmed,
\* non-empty, not purely numeric, longer than 2 characters and not "UPI".
RuleValueAccepted ==
    MerchantSet =>
        \A r \in Rows :
            RuleOf(NarrationOf(r)) \in {1, 2, 3, 5, 6, 7} =>
                LET v == Strip(MerchantOf(r))
                IN  /\ v # <<>>
                    /\ ~AllDigits(v)
                    /\ Len(v) > 2
                    /\ Upper(v) # UPI

\* C10: with an amount column and not both a debit and a credit column, a
\* row's Type is Debit exactly when the amount cell's own text holds a "-" and
\* Credit otherwise, and its Amount is the absolute value of the cell parsed
\* without ",", "INR" and "Rs." (0 when that is no number); "-1,234.50" gives
\* (1234.50, Debit), "2,000 INR" gives (2000, Credit) and the unparsable "5-"
\* gives (0, Debit).  With all three
\* columns the result is that of the debit and credit cells alone.
SingleAmountRule ==
    pc = "done" =>
        /\ (amount_col # None /\ ~BothSides) =>
              \A r \in Rows :
                  LET cell == Column(raw, amount_col)[r]
                  IN  /\ TypeOf(r) = Str(Debit) <=> HasDash(AsStr(cell))
                      /\ TypeOf(r) = Str(Credit) <=> ~HasDash(AsStr(cell))
                      /\ AmountOf(r) = Abs(ParseAmount(cell))
                      /\ cell = Str(<<"-","1",",","2","3","4",".","5","0">>) =>
                            /\ AmountOf(r) = Num((12345 * Scale) \div 10)
                            /\ TypeOf(r) = Str(Debit)
                      /\ cell = Str(<<"2",",","0","0","0"," ","I","N","R">>) =>
                            /\ AmountOf(r) = Num(2000 * Scale)
                            /\ TypeOf(r) = Str(Credit)
                      /\ cell = Str(<<"5","-">>) =>
                            /\ AmountOf(r) = Num(0)
                            /\ TypeOf(r) = Str(Debit)
        /\ (amount_col # None /\ BothSides) =>
              \A r \in Rows :
                  LET d == ParseSide(Column(raw, debit_col)[r])
                      c == ParseSide(Column(raw, credit_col)[r])
                  IN  /\ AmountOf(r) = Abs(IF c.num = 0 THEN d ELSE c)
                      /\ TypeOf(r) = Str(IF c.num > 0 THEN Credit ELSE Debit)

\* the signed example cell has been normalised by the single-amount path
SignedExampleNormalised ==
    /\ pc = "done"
    /\ raw.cols = <<AmountName>>
    /\ raw.rows[1][1] = Str(<<"-","1",",","2","3","4",".","5","0">>)
    /\ AmountOf(1) = Num((12345 * Scale) \div 10)
    /\ TypeOf(1) = Str(Debit)

====
